---- MODULE Spec2Model ----
(***************************************************************************)
(* AST construction in the examples of the pest book: the two Pratt        *)
(* calculators (examples/calculator, examples/pest-calculator) and the J   *)
(* language AST compiler (examples/jlang-parser).                          *)
(*                                                                         *)
(* A token (pest Pair) is a record [rule, str, inner]: its rule label, its *)
(* text as a sequence of one-character strings, and its children.          *)
(* A panic of the Rust code is the value Panic(msg); it absorbs every      *)
(* construction it is an operand of, as unwinding does.                    *)
(***************************************************************************)
EXTENDS Integers, Sequences, FiniteSets

VARIABLES prog, input, output, pc

vars == <<prog, input, output, pc>>

\* ------------------------------------------------------------------ bounds

\* Integer tokens in one calculator line, nested ones included.
MaxOperands == 3
\* Adverbs after one J verb.
MaxAdverbs == 2
\* Literal and identifier terms in one J term list, nested ones included.
MaxTerms == 2
\* Depth of parentheses in one J term list.
MaxDepth == 2
\* Characters and doubled quotes between the quotes of one J string.
MaxStrUnits == 3
\* Characters of one J source text of numeric literals.
MaxNumLen == 4
\* Statements of one J program of several statements.
MaxStmts == 3
\* Lines on the standard input of a calculator.
MaxLines == 2

\* ----------------------------------------------------------------- helpers

Pair(rule, str, inner) == [rule |-> rule, str |-> str, inner |-> inner]

Tok(rule) == Pair(rule, <<>>, <<>>)

Panic(msg) == [node |-> "panic", msg |-> msg]

IsPanic(x) == x.node = "panic"

Digits == <<"0", "1", "2", "3", "4", "5", "6", "7", "8", "9">>

IsDigit(c) == \E d \in DOMAIN Digits : Digits[d] = c

DigitVal(c) == (CHOOSE d \in DOMAIN Digits : Digits[d] = c) - 1

I32_MAX == 2147483647

RECURSIVE DecimalValue(_)
\* value of a non-empty sequence of ASCII digits
DecimalValue(s) ==
    IF Len(s) = 0 THEN 0
    ELSE 10 * DecimalValue(SubSeq(s, 1, Len(s) - 1)) + DigitVal(s[Len(s)])

AllDigits(s) == Len(s) > 0 /\ \A k \in DOMAIN s : IsDigit(s[k])

RECURSIVE StripZeros(_)
\* the digits without their leading zeros
StripZeros(s) ==
    IF Len(s) > 0 /\ Head(s) = "0" THEN StripZeros(Tail(s)) ELSE s

\* the digits are a magnitude an i32 holds: at most I32_MAX, or I32_MAX + 1
\* after a minus sign (compared by digits: ten digits may exceed it)
FitsI32(digits, negative) ==
    LET d == StripZeros(digits)
        hi == DecimalValue(SubSeq(d, 1, 9))
        lo == DigitVal(d[10])
    IN  \/ Len(d) < 10
        \/ /\ Len(d) = 10
           /\ \/ hi < I32_MAX \div 10
              \/ /\ hi = I32_MAX \div 10
                 /\ lo <= (I32_MAX % 10) + (IF negative THEN 1 ELSE 0)

\* str::parse::<i32>(): an optional + or -, then one or more ASCII digits, the
\* value within the i32 range: Ok(value) or Err
ParseI32(s) ==
    LET signed == Len(s) > 0 /\ s[1] \in {"+", "-"}
        negative == signed /\ s[1] = "-"
        digits == IF signed THEN Tail(s) ELSE s
        d == StripZeros(digits)
        value == IF ~negative THEN DecimalValue(d)
                 ELSE IF Len(d) < 10 THEN 0 - DecimalValue(d)
                 ELSE 0 - 10 * DecimalValue(SubSeq(d, 1, 9)) - DigitVal(d[10])
    IN  IF ~AllDigits(digits) THEN [ok |-> FALSE, value |-> 0]
        ELSE IF ~FitsI32(digits, negative) THEN [ok |-> FALSE, value |-> 0]
        ELSE [ok |-> TRUE, value |-> value]

\* --------------------------------------------- pest::pratt_parser (library)

PREC_STEP == 10

Op_infix(rule, assoc) == [rule |-> rule, affix |-> "Infix", assoc |-> assoc]

Op_prefix(rule) == [rule |-> rule, affix |-> "Prefix", assoc |-> "None"]

\* PrattParser::new().op(g1).op(g2)...: a table is the sequence of its groups;
\* the i-th .op call gives its operators the precedence PREC_STEP * (i + 1).
OpsContains(table, rule) ==
    \E i \in DOMAIN table : \E o \in table[i] : o.rule = rule

OpsGet(table, rule) ==
    LET i == CHOOSE i \in DOMAIN table :
                 /\ \E o \in table[i] : o.rule = rule
                 /\ \A j \in DOMAIN table :
                        (\E o \in table[j] : o.rule = rule) => j <= i
        o == CHOOSE o \in table[i] : o.rule = rule
    IN  [affix |-> o.affix, assoc |-> o.assoc, prec |-> PREC_STEP * (i + 1)]

\* What the parser hands to the callbacks, as a tree of pending calls:
\* primary(pair), prefix(op, rhs), infix(lhs, op, rhs).
PrimaryCall(pair) == [node |-> "primary", pair |-> pair]

PrefixCall(op, rhs) == [node |-> "prefix", op |-> op, rhs |-> rhs]

InfixCall(lhs, op, rhs) == [node |-> "infix", lhs |-> lhs, op |-> op, rhs |-> rhs]

RECURSIVE pratt_expr(_, _, _, _), pratt_climb(_, _, _, _), pratt_nud(_, _, _), pratt_led(_, _, _)

\* fn lbp: the precedence of the peeked pair, 0 at the end of the pairs
pratt_lbp(table, pairs, i) ==
    IF i > Len(pairs) THEN 0 ELSE OpsGet(table, pairs[i].rule).prec

\* fn nud: a prefix operator and its operand, or a primary.
\* A parse state is [tree, next]: the tree so far and the next pair's index.
pratt_nud(table, pairs, i) ==
    IF i > Len(pairs)
    THEN [tree |-> Panic("Pratt parser expects non-empty Pairs"), next |-> i]
    ELSE IF ~OpsContains(table, pairs[i].rule)
    THEN [tree |-> PrimaryCall(pairs[i]), next |-> i + 1]
    ELSE IF OpsGet(table, pairs[i].rule).affix = "Prefix"
    THEN LET rhs == pratt_expr(table, pairs, i + 1,
                               OpsGet(table, pairs[i].rule).prec - 1)
         IN  IF IsPanic(rhs.tree) THEN rhs
             ELSE [tree |-> PrefixCall(pairs[i], rhs.tree), next |-> rhs.next]
    ELSE [tree |-> Panic("Expected prefix or primary expression"), next |-> i]

\* fn led: the infix operator at st.next and its right operand
pratt_led(table, pairs, st) ==
    LET pair == pairs[st.next]
        op == OpsGet(table, pair.rule)
    IN  IF OpsContains(table, pair.rule) /\ op.affix = "Infix"
        THEN LET rhs == pratt_expr(table, pairs, st.next + 1,
                            IF op.assoc = "Left" THEN op.prec ELSE op.prec - 1)
             IN  IF IsPanic(rhs.tree) THEN rhs
                 ELSE [tree |-> InfixCall(st.tree, pair, rhs.tree),
                       next |-> rhs.next]
        ELSE [tree |-> Panic("Expected postfix or infix expression"),
              next |-> st.next]

\* the loop of fn expr: while rbp < self.lbp(pairs) { lhs = self.led(pairs, lhs) }
pratt_climb(table, pairs, st, rbp) ==
    IF IsPanic(st.tree) THEN st
    ELSE IF st.next <= Len(pairs) /\ ~OpsContains(table, pairs[st.next].rule)
    THEN [tree |-> Panic("Expected operator"), next |-> st.next]
    ELSE IF rbp < pratt_lbp(table, pairs, st.next)
    THEN pratt_climb(table, pairs, pratt_led(table, pairs, st), rbp)
    ELSE st

pratt_expr(table, pairs, i, rbp) ==
    pratt_climb(table, pairs, pratt_nud(table, pairs, i), rbp)

\* PrattParserMap::parse: self.expr(&mut pairs.peekable(), 0)
pratt_parse(table, pairs) == pratt_expr(table, pairs, 1, 0).tree

\* ------------------------------------------- examples/pest-calculator (Expr)

\* mutant: the multiplicative group declared before the additive one
PRATT_PARSER_pest_calculator_swapped ==
    << {Op_infix("multiply", "Left"), Op_infix("divide", "Left"),
        Op_infix("modulo", "Left")},
       {Op_infix("add", "Left"), Op_infix("subtract", "Left")},
       {Op_prefix("unary_minus")} >>

\* mutant: the prefix operator declared first, so with the lowest precedence
PRATT_PARSER_pest_calculator_prefix_first ==
    << {Op_prefix("unary_minus")},
       {Op_infix("add", "Left"), Op_infix("subtract", "Left")},
       {Op_infix("multiply", "Left"), Op_infix("divide", "Left"),
        Op_infix("modulo", "Left")} >>

PRATT_PARSER_pest_calculator ==
    << {Op_infix("add", "Left"), Op_infix("subtract", "Left")},
       {Op_infix("multiply", "Left"), Op_infix("divide", "Left"),
        Op_infix("modulo", "Left")},
       {Op_prefix("unary_minus")} >>

Integer(value) == [node |-> "Integer", value |-> value]

UnaryMinus(e) == [node |-> "UnaryMinus", expr |-> e]

BinOp(lhs, op, rhs) == [node |-> "BinOp", lhs |-> lhs, op |-> op, rhs |-> rhs]

\* the match of map_infix: Rule -> Op
InfixOp(rule) ==
    CASE rule = "add" -> "Add"
      [] rule = "subtract" -> "Subtract"
      [] rule = "multiply" -> "Multiply"
      [] rule = "divide" -> "Divide"
      [] rule = "modulo" -> "Modulo"
      [] OTHER -> "unreachable"

RECURSIVE parse_expr(_), parse_expr_map(_)

\* the three closures of parse_expr, applied to the parser's calls
parse_expr_map(call) ==
    CASE call.node = "primary" ->
            IF call.pair.rule = "integer"
            THEN IF ParseI32(call.pair.str).ok
                 THEN Integer(ParseI32(call.pair.str).value)
                 ELSE Panic("called Result::unwrap() on an Err value")
            ELSE IF call.pair.rule = "expr"
            THEN parse_expr(call.pair.inner)
            ELSE Panic("Expr::parse expected atom")
      [] call.node = "infix" ->
            LET lhs == parse_expr_map(call.lhs)
                rhs == parse_expr_map(call.rhs)
            IN  IF IsPanic(lhs) THEN lhs
                ELSE IF IsPanic(rhs) THEN rhs
                ELSE IF InfixOp(call.op.rule) = "unreachable"
                THEN Panic("Expr::parse expected infix operation")
                ELSE BinOp(lhs, InfixOp(call.op.rule), rhs)
      [] call.node = "prefix" ->
            LET rhs == parse_expr_map(call.rhs)
            IN  IF IsPanic(rhs) THEN rhs
                ELSE IF call.op.rule = "unary_minus" THEN UnaryMinus(rhs)
                ELSE Panic("unreachable")
      [] OTHER -> call

parse_expr(pairs) ==
    parse_expr_map(pratt_parse(PRATT_PARSER_pest_calculator, pairs))

\* ------------------------------------------------ examples/calculator (eval)

\* mutant: power declared left-associative
PRATT_PARSER_calculator_power_left ==
    << {Op_infix("add", "Left"), Op_infix("subtract", "Left")},
       {Op_infix("multiply", "Left"), Op_infix("divide", "Left")},
       {Op_infix("power", "Left")} >>

PRATT_PARSER_calculator ==
    << {Op_infix("add", "Left"), Op_infix("subtract", "Left")},
       {Op_infix("multiply", "Left"), Op_infix("divide", "Left")},
       {Op_infix("power", "Right")} >>

\* An f64 is kept as the term of the f64 operations that compute it, in the
\* order eval applies them: F64(n) for a parsed literal, F64Op(f, lhs, rhs)
\* for lhs + rhs, lhs - rhs, lhs * rhs, lhs / rhs and lhs.powf(rhs).
F64(value) == [node |-> "f64", value |-> value]

F64Op(f, lhs, rhs) == [node |-> "f64op", f |-> f, lhs |-> lhs, rhs |-> rhs]

\* str::parse::<f64>() of a num token without fraction or exponent
ParseF64(s) ==
    IF ~AllDigits(s) THEN [ok |-> FALSE, value |-> 0]
    ELSE IF FitsI32(s, FALSE) THEN [ok |-> TRUE, value |-> DecimalValue(s)]
    ELSE [ok |-> TRUE, value |-> StripZeros(s)]

\* the match of map_infix: Rule -> f64 operation
EvalOp(rule) ==
    CASE rule = "add" -> "+"
      [] rule = "subtract" -> "-"
      [] rule = "multiply" -> "*"
      [] rule = "divide" -> "/"
      [] rule = "power" -> "powf"
      [] OTHER -> "unreachable"

RECURSIVE eval(_), eval_map(_)

eval_map(call) ==
    CASE call.node = "primary" ->
            IF call.pair.rule = "num"
            THEN IF ParseF64(call.pair.str).ok
                 THEN F64(ParseF64(call.pair.str).value)
                 ELSE Panic("called Result::unwrap() on an Err value")
            ELSE IF call.pair.rule = "expr"
            THEN eval(call.pair.inner)
            ELSE Panic("unreachable")
      [] call.node = "infix" ->
            LET lhs == eval_map(call.lhs)
                rhs == eval_map(call.rhs)
            IN  IF IsPanic(lhs) THEN lhs
                ELSE IF IsPanic(rhs) THEN rhs
                ELSE IF EvalOp(call.op.rule) = "unreachable"
                THEN Panic("unreachable")
                ELSE F64Op(EvalOp(call.op.rule), lhs, rhs)
      [] call.node = "prefix" ->
            Panic("Could not map, no map_prefix specified")
      [] OTHER -> call

eval(expression) == eval_map(pratt_parse(PRATT_PARSER_calculator, expression))

\* ------------------------------------- the calculators' recognised lines
\* calculator.pest: expr = { atom ~ (bin_op ~ atom)* },
\*   atom = _{ unary_minus? ~ primary }, primary = _{ integer | "(" ~ expr ~ ")" }
\* grammar.pest:    expr = { term ~ (operation ~ term)* },
\*   term = _{ num | "(" ~ expr ~ ")" }

InfixRules(p) ==
    IF p = "pest-calculator"
    THEN {"add", "subtract", "multiply", "divide", "modulo"}
    ELSE {"add", "subtract", "multiply", "divide", "power"}

PrefixRules(p) == IF p = "pest-calculator" THEN {"unary_minus"} ELSE {}

LeafRule(p) == IF p = "pest-calculator" THEN "integer" ELSE "num"

\* one atom around a primary token
Atoms(p, primary) ==
    {<<primary>>} \cup {<<Tok(pre), primary>> : pre \in PrefixRules(p)}

RECURSIVE FlatExprs(_, _)
\* the unparenthesised exprs of n operands (their text is numbered below)
FlatExprs(p, n) ==
    IF n = 1 THEN Atoms(p, Pair(LeafRule(p), <<"0">>, <<>>))
    ELSE {s \o <<Tok(op)>> \o a :
            s \in FlatExprs(p, n - 1), op \in InfixRules(p),
            a \in Atoms(p, Pair(LeafRule(p), <<"0">>, <<>>))}

RECURSIVE CountLeaves(_)
CountLeaves(s) ==
    IF Len(s) = 0 THEN 0
    ELSE (IF Head(s).rule = "expr" THEN CountLeaves(Head(s).inner)
          ELSE IF Head(s).rule \in {"integer", "num"} THEN 1 ELSE 0)
         + CountLeaves(Tail(s))

\* the unparenthesised expr s with one of its literals replaced by "(" inner ")"
ReplaceOne(s, inner) ==
    {[s EXCEPT ![k] = Pair("expr", <<>>, inner)] :
        k \in {k \in DOMAIN s : s[k].rule \in {"integer", "num"}}}

\* the unparenthesised exprs of at most n operands
FlatUpTo(p, n) == UNION {FlatExprs(p, m) : m \in 1..n}

\* the exprs of at most MaxOperands operands in all: the unparenthesised
\* ones, and those with one parenthesised primary, at any place, holding an
\* unparenthesised expr
ParenExprs(p) ==
    LET flat == [n \in 1..MaxOperands |-> FlatUpTo(p, n)]
    IN  flat[MaxOperands] \cup UNION { UNION {
            ReplaceOne(s, inner) :
                inner \in flat[MaxOperands + 1 - CountLeaves(s)] } :
            s \in flat[MaxOperands] }

RECURSIVE Number(_, _)
\* s with its literals given the texts "1", "2", ... in source order, from
\* first: [s |-> the numbered pairs, next |-> the number after the last]
Number(s, first) ==
    IF Len(s) = 0 THEN [s |-> <<>>, next |-> first]
    ELSE LET h == Head(s)
             hd == IF h.rule = "expr"
                   THEN LET in == Number(h.inner, first)
                        IN  [s |-> <<Pair("expr", <<>>, in.s)>>, next |-> in.next]
                   ELSE IF h.rule \in {"integer", "num"}
                   THEN [s |-> <<Pair(h.rule, <<Digits[first + 1]>>, <<>>)>>,
                         next |-> first + 1]
                   ELSE [s |-> <<h>>, next |-> first]
             tl == Number(Tail(s), hd.next)
         IN  [s |-> hd.s \o tl.s, next |-> tl.next]

\* the inner pairs of the expr pair of a recognised line
Lines(p) == {Number(s, 1).s : s \in ParenExprs(p)}

\* ------------------------------------------------------ the state machine

Pending == [node |-> "pending"]

InitPratt ==
    /\ prog \in {"calculator", "pest-calculator"}
    /\ input \in Lines(prog)
    /\ output = Pending
    /\ pc = "ready"

\* pest-calculator main, Ok arm: parse_expr(pairs.next().unwrap().into_inner())
PestCalculatorLine ==
    /\ prog = "pest-calculator"
    /\ pc = "ready"
    /\ output' = parse_expr(input)
    /\ pc' = "done"
    /\ UNCHANGED <<prog, input>>

\* calculator main, Ok arm: eval(calc.next().unwrap().into_inner())
CalculatorLine ==
    /\ prog = "calculator"
    /\ pc = "ready"
    /\ output' = eval(input)
    /\ pc' = "done"
    /\ UNCHANGED <<prog, input>>

NextPratt == PestCalculatorLine \/ CalculatorLine

SpecPratt == InitPratt /\ [][NextPratt]_vars

\* ------------------------------------------- the calculators' line loops

\* what stdin.lock().lines() yields for one line, recognised already: the
\* inner pairs of its expr pair, the recognizer's error, or an error of the
\* read itself
RecognisedLine(pairs) == [node |-> "Ok", pairs |-> pairs]

UnrecognisedLine == [node |-> "Err"]

UnreadableLine == [node |-> "IoErr"]

\* the lines fed to the loops: 1, 1 + 2, 2147483648, a line the grammar
\* rejects and a line that cannot be read
LinePool(p) ==
    {RecognisedLine(<<Pair(LeafRule(p), <<"1">>, <<>>)>>),
     RecognisedLine(<<Pair(LeafRule(p), <<"1">>, <<>>), Tok("add"),
                      Pair(LeafRule(p), <<"2">>, <<>>)>>),
     RecognisedLine(<<Pair(LeafRule(p),
                           <<"2", "1", "4", "7", "4", "8", "3", "6", "4", "8">>,
                           <<>>)>>),
     UnrecognisedLine,
     UnreadableLine}

Stdout(text, value) == [stream |-> "stdout", text |-> text, value |-> value]

Stderr(text, value) == [stream |-> "stderr", text |-> text, value |-> value]

None == [node |-> "none"]

InitLoop ==
    /\ prog \in {"calculator", "pest-calculator"}
    /\ input \in UNION {[1..n -> LinePool(prog)] : n \in 0..MaxLines}
    /\ output = <<>>
    /\ pc = "reading"

\* calculator main: one turn of for line in stdin.lock().lines()
CalculatorLoop ==
    /\ prog = "calculator"
    /\ pc = "reading"
    /\ input # <<>>
    /\ input' = Tail(input)
    /\ LET line == Head(input)
           value == eval(line.pairs)
       IN  IF line.node = "IoErr"
           THEN /\ output' = Append(output, Stderr("panicked",
                       Panic("called Result::unwrap() on an Err value")))
                /\ pc' = "panicked"
           ELSE IF line.node = "Err"
           THEN /\ output' = Append(output, Stdout(" Syntax error", None))
                /\ pc' = pc
           ELSE IF IsPanic(value)
           THEN /\ output' = Append(output, Stderr("panicked", value))
                /\ pc' = "panicked"
           ELSE /\ output' = Append(output, Stdout(" = ", value))
                /\ pc' = pc
    /\ UNCHANGED prog

\* pest-calculator main: one turn of for line in io::stdin().lock().lines()
PestCalculatorLoop ==
    /\ prog = "pest-calculator"
    /\ pc = "reading"
    /\ input # <<>>
    /\ input' = Tail(input)
    /\ LET line == Head(input)
           value == parse_expr(line.pairs)
       IN  IF line.node = "IoErr"
           THEN /\ output' = Append(output, Stderr("Error: ", None))
                /\ pc' = "exited"
           ELSE IF line.node = "Err"
           THEN /\ output' = Append(output, Stderr("Parse failed: ", None))
                /\ pc' = pc
           ELSE IF IsPanic(value)
           THEN /\ output' = Append(output, Stderr("panicked", value))
                /\ pc' = "panicked"
           ELSE /\ output' = Append(output, Stdout("Parsed: ", value))
                /\ pc' = pc
    /\ UNCHANGED prog

\* lines() yields None: the for loop ends and main returns
EndOfInput ==
    /\ pc = "reading"
    /\ input = <<>>
    /\ pc' = "exited"
    /\ UNCHANGED <<prog, input, output>>

NextLoop == CalculatorLoop \/ PestCalculatorLoop \/ EndOfInput

SpecLoop == InitLoop /\ [][NextLoop]_vars

\* the loops run by a process that is scheduled until it ends
FairSpecLoop == SpecLoop /\ WF_vars(NextLoop)

\* ------------------------------------------ properties of the calculators

AdditiveRules == {"add", "subtract"}

MultiplicativeRules == {"multiply", "divide", "modulo"}

IsInfixTok(tok) == tok.rule \in InfixRules("pest-calculator") \cup InfixRules("calculator")

IsFlat(s) == \A k \in DOMAIN s : s[k].rule # "expr"

\* the places of the infix operators of a line
InfixPlaces(s) == {k \in DOMAIN s : IsInfixTok(s[k])}

\* the k-th operator of a line and its atoms: the pairs between operators
NthInfix(s, k) ==
    CHOOSE i \in InfixPlaces(s) : Cardinality({j \in InfixPlaces(s) : j <= i}) = k

NthAtom(s, k) ==
    LET n == Cardinality(InfixPlaces(s))
        from == IF k = 1 THEN 1 ELSE NthInfix(s, k - 1) + 1
        to == IF k = n + 1 THEN Len(s) ELSE NthInfix(s, k) - 1
    IN  SubSeq(s, from, to)

\* the node an operator application is built as, in either calculator
Bin(p, lhs, rule, rhs) ==
    IF p = "pest-calculator" THEN BinOp(lhs, InfixOp(rule), rhs)
    ELSE F64Op(EvalOp(rule), lhs, rhs)

\* the node of an atom of an unparenthesised line
AtomNode(p, atom) ==
    LET lit == atom[Len(atom)]
        leaf == IF p = "pest-calculator" THEN Integer(DecimalValue(lit.str))
                ELSE F64(DecimalValue(lit.str))
    IN  IF Len(atom) = 2 THEN UnaryMinus(leaf) ELSE leaf

IsBinNode(t) == t.node \in {"BinOp", "f64op"}

IsAdditiveNode(t) ==
    \/ t.node = "BinOp" /\ t.op \in {"Add", "Subtract"}
    \/ t.node = "f64op" /\ t.f \in {"+", "-"}

IsMultiplicativeNode(t) ==
    \/ t.node = "BinOp" /\ t.op \in {"Multiply", "Divide", "Modulo"}
    \/ t.node = "f64op" /\ t.f \in {"*", "/"}

RECURSIVE NoAdditiveUnderMultiplicative(_)
NoAdditiveUnderMultiplicative(t) ==
    IF IsBinNode(t)
    THEN /\ IsMultiplicativeNode(t) => ~IsAdditiveNode(t.lhs) /\ ~IsAdditiveNode(t.rhs)
         /\ NoAdditiveUnderMultiplicative(t.lhs)
         /\ NoAdditiveUnderMultiplicative(t.rhs)
    ELSE IF t.node = "UnaryMinus" THEN NoAdditiveUnderMultiplicative(t.expr)
    ELSE TRUE

\* C1: in the tree of a line without parentheses no additive operation is a
\* child of a multiplicative one; a + b * c builds (+ a (* b c)) and
\* a * b + c builds (+ (* a b) c), for every additive + and multiplicative *.
C1_MultiplicativeUnderAdditive ==
    (pc = "done" /\ IsFlat(input)) =>
        /\ IsBinNode(output) \/ output.node \in {"Integer", "f64", "UnaryMinus"}
        /\ NoAdditiveUnderMultiplicative(output)
        /\ Cardinality(InfixPlaces(input)) = 2 =>
             LET o1 == input[NthInfix(input, 1)].rule
                 o2 == input[NthInfix(input, 2)].rule
                 a == AtomNode(prog, NthAtom(input, 1))
                 b == AtomNode(prog, NthAtom(input, 2))
                 c == AtomNode(prog, NthAtom(input, 3))
             IN  /\ (o1 \in AdditiveRules /\ o2 \in MultiplicativeRules) =>
                        output = Bin(prog, a, o1, Bin(prog, b, o2, c))
                 /\ (o1 \in MultiplicativeRules /\ o2 \in AdditiveRules) =>
                        output = Bin(prog, Bin(prog, a, o1, b), o2, c)

C1_Witness ==
    /\ pc = "done"
    /\ prog = "pest-calculator"
    /\ input = <<Pair("integer", <<"1">>, <<>>), Tok("add"),
                 Pair("integer", <<"2">>, <<>>), Tok("multiply"),
                 Pair("integer", <<"3">>, <<>>)>>
    /\ output = BinOp(Integer(1), "Add", BinOp(Integer(2), "Multiply", Integer(3)))

\* the groups of the claim and their associativity
ClaimGroups == {AdditiveRules, MultiplicativeRules, {"power"}}

RECURSIVE LeftFold(_, _, _), RightFold(_, _, _)
\* ((a1 o1 a2) o2 a3) ... of the first n atoms of the line s
LeftFold(p, s, n) ==
    IF n = 1 THEN AtomNode(p, NthAtom(s, 1))
    ELSE Bin(p, LeftFold(p, s, n - 1), s[NthInfix(s, n - 1)].rule,
             AtomNode(p, NthAtom(s, n)))

\* ak ok (... (a_(n-1) o_(n-1) an)) of the atoms k..n of the line s
RightFold(p, s, k) ==
    IF k = Cardinality(InfixPlaces(s)) + 1 THEN AtomNode(p, NthAtom(s, k))
    ELSE Bin(p, AtomNode(p, NthAtom(s, k)), s[NthInfix(s, k)].rule,
             RightFold(p, s, k + 1))

\* C2: a chain of three or more operands joined by operators of one group
\* folds left-first for add, subtract, multiply, divide and modulo, and
\* right-first for power.
C2_ChainsLeanByAssociativity ==
    (/\ pc = "done"
     /\ IsFlat(input)
     /\ Cardinality(InfixPlaces(input)) >= 2
     /\ \E g \in ClaimGroups : \A k \in InfixPlaces(input) : input[k].rule \in g) =>
        IF \A k \in InfixPlaces(input) : input[k].rule = "power"
        THEN output = RightFold(prog, input, 1)
        ELSE output = LeftFold(prog, input, Cardinality(InfixPlaces(input)) + 1)

C2_Witness ==
    /\ pc = "done"
    /\ prog = "calculator"
    /\ input = <<Pair("num", <<"1">>, <<>>), Tok("power"),
                 Pair("num", <<"2">>, <<>>), Tok("power"),
                 Pair("num", <<"3">>, <<>>)>>
    /\ output = F64Op("powf", F64(1), F64Op("powf", F64(2), F64(3)))

RECURSIVE MatchesLine(_, _)
\* t is built from the atoms of the line s, each atom whole: a unary minus
\* holds the tree of the primary after it and nothing else, a parenthesised
\* primary the tree of the expr inside it
MatchesLine(t, s) ==
    IF InfixPlaces(s) = {}
    THEN LET primary == s[Len(s)]
             operand == IF Len(s) = 2 THEN t.expr ELSE t
         IN  /\ Len(s) = 2 => s[1].rule = "unary_minus" /\ t.node = "UnaryMinus"
             /\ IF primary.rule = "expr" THEN MatchesLine(operand, primary.inner)
                ELSE operand = Integer(DecimalValue(primary.str))
    ELSE /\ t.node = "BinOp"
         /\ \E k \in InfixPlaces(s) :
               /\ t.op = InfixOp(s[k].rule)
               /\ MatchesLine(t.lhs, SubSeq(s, 1, k - 1))
               /\ MatchesLine(t.rhs, SubSeq(s, k + 1, Len(s)))

PrefixPrec(table) ==
    {OpsGet(table, o.rule).prec : o \in {o \in UNION {table[i] : i \in DOMAIN table} : o.affix = "Prefix"}}

InfixPrec(table) ==
    {OpsGet(table, o.rule).prec : o \in {o \in UNION {table[i] : i \in DOMAIN table} : o.affix = "Infix"}}

\* C3: unary minus has the highest precedence of the table, and the operand of
\* a unary minus is the primary after it: no infix operator outside
\* parentheses is inside it; -a * b builds ((-a) * b), -a + b builds ((-a) + b).
C3_UnaryMinusBindsItsPrimary ==
    (pc = "done" /\ prog = "pest-calculator") =>
        /\ \A u \in PrefixPrec(PRATT_PARSER_pest_calculator) :
               \A i \in InfixPrec(PRATT_PARSER_pest_calculator) : u > i
        /\ MatchesLine(output, input)
        /\ (Len(input) = 4 /\ IsFlat(input) /\ input[1].rule = "unary_minus") =>
               output = BinOp(UnaryMinus(Integer(DecimalValue(input[2].str))),
                              InfixOp(input[3].rule),
                              Integer(DecimalValue(input[4].str)))

C3_Witness ==
    /\ pc = "done"
    /\ prog = "pest-calculator"
    /\ input = <<Tok("unary_minus"), Pair("integer", <<"1">>, <<>>),
                 Tok("multiply"), Pair("integer", <<"2">>, <<>>)>>
    /\ output = BinOp(UnaryMinus(Integer(1)), "Multiply", Integer(2))

\* ---------------------------------------------- examples/jlang-parser (AST)

AstPrint(e) == [node |-> "Print", expr |-> e]

AstInteger(value) == [node |-> "Integer", value |-> value]

DoublePrecisionFloat(flt) == [node |-> "DoublePrecisionFloat", value |-> flt]

MonadicOp(verb, e) == [node |-> "MonadicOp", verb |-> verb, expr |-> e]

\* mutant: the operands in each other's place
DyadicOp_swapped(verb, lhs, rhs) ==
    [node |-> "DyadicOp", verb |-> verb, lhs |-> rhs, rhs |-> lhs]

DyadicOp(verb, lhs, rhs) ==
    [node |-> "DyadicOp", verb |-> verb, lhs |-> lhs, rhs |-> rhs]

Terms(terms) == [node |-> "Terms", terms |-> terms]

Reduce(verb, e) == [node |-> "Reduce", verb |-> verb, expr |-> e]

IsGlobal(ident, e) == [node |-> "IsGlobal", ident |-> ident, expr |-> e]

Ident(name) == [node |-> "Ident", name |-> name]

Str(cstring) == [node |-> "Str", value |-> cstring]

\* the byte 0 in a token text
NUL == "NUL"

AssertNoAdverbs == "assertion failed: adverbs.len() == 0"

AssertOneAdverb == "assertion failed: adverbs.len() == 1"

AssertReduceAdverb == "assertion failed: adverbs[0].as_str() == /"

UnsupportedNumberOfAdverbs == "Unsupported number of adverbs"

UnexpectedDyadicVerb == "Unexpected dyadic verb"

UnsupportedMonadicVerb == "Unsupported monadic action verb"

UnwrapNone == "called Option::unwrap() on a None value"

\* let verb = pair.next().unwrap(); let adverbs = pair.collect();
ActionVerb(action) == action.inner[1]

ActionAdverbs(action) == Tail(action.inner)

\* the match of parse_dyadic_action: verb text -> DyadicVerb
DyadicVerbOf(str) ==
    CASE str = <<"+">> -> "Plus"
      [] str = <<"*">> -> "Times"
      [] str = <<"-">> -> "Minus"
      [] str = <<"<">> -> "LessThan"
      [] str = <<"=">> -> "Equal"
      [] str = <<">">> -> "LargerThan"
      [] str = <<"%">> -> "Divide"
      [] str = <<"^">> -> "Power"
      [] str = <<"|">> -> "Residue"
      [] str = <<"#">> -> "Copy"
      [] str = <<">", ".">> -> "LargerOf"
      [] str = <<">", ":">> -> "LargerOrEqual"
      [] str = <<"$">> -> "Shape"
      [] OTHER -> "none"

\* mutant: the assertion on the adverbs left out
parse_dyadic_action_no_assert(pair, lhs, rhs) ==
    IF Len(pair.inner) = 0 THEN Panic(UnwrapNone)
    ELSE IF DyadicVerbOf(ActionVerb(pair).str) = "none"
    THEN Panic(UnexpectedDyadicVerb)
    ELSE DyadicOp(DyadicVerbOf(ActionVerb(pair).str), lhs, rhs)

parse_dyadic_action(pair, lhs, rhs) ==
    IF Len(pair.inner) = 0 THEN Panic(UnwrapNone)
    ELSE IF Len(ActionAdverbs(pair)) # 0 THEN Panic(AssertNoAdverbs)
    ELSE IF DyadicVerbOf(ActionVerb(pair).str) = "none"
    THEN Panic(UnexpectedDyadicVerb)
    ELSE DyadicOp(DyadicVerbOf(ActionVerb(pair).str), lhs, rhs)

\* mutant: the assertion on the adverbs left out
PlainVerb_no_assert(adverbs, verb, e) == MonadicOp(verb, e)

\* the arms of >:, *:, %, # and $:
\* assert_eq!(adverbs.len(), 0); AstNode::MonadicOp { verb, expr }
PlainVerb(adverbs, verb, e) ==
    IF Len(adverbs) # 0 THEN Panic(AssertNoAdverbs) ELSE MonadicOp(verb, e)

\* mutant: every non-empty adverb list taken as a reduction
DualVerb_any_count(adverbs, monadic, dyadic, e) ==
    IF Len(adverbs) = 0 THEN MonadicOp(monadic, e) ELSE Reduce(dyadic, e)

\* the arms of - and >.:
\* match adverbs.len() { 0 => MonadicOp, 1 => Reduce, _ => panic! }
DualVerb(adverbs, monadic, dyadic, e) ==
    IF Len(adverbs) = 0 THEN MonadicOp(monadic, e)
    ELSE IF Len(adverbs) = 1 THEN Reduce(dyadic, e)
    ELSE Panic(UnsupportedNumberOfAdverbs)

\* mutant: the adverb's text not compared
ReduceVerb_any_adverb(adverbs, dyadic, e) ==
    IF Len(adverbs) # 1 THEN Panic(AssertOneAdverb) ELSE Reduce(dyadic, e)

\* the arms of + and *:
\* assert_eq!(adverbs.len(), 1); assert_eq!(adverbs[0].as_str(), "/"); Reduce
ReduceVerb(adverbs, dyadic, e) ==
    IF Len(adverbs) # 1 THEN Panic(AssertOneAdverb)
    ELSE IF adverbs[1].str # <<"/">> THEN Panic(AssertReduceAdverb)
    ELSE Reduce(dyadic, e)

parse_monadic_action(pair, e) ==
    IF Len(pair.inner) = 0 THEN Panic(UnwrapNone)
    ELSE
    LET verb == ActionVerb(pair).str
        adverbs == ActionAdverbs(pair)
    IN  CASE verb = <<">", ":">> -> PlainVerb(adverbs, "Increment", e)
          [] verb = <<"*", ":">> -> PlainVerb(adverbs, "Square", e)
          [] verb = <<"-">> -> DualVerb(adverbs, "Negate", "Minus", e)
          [] verb = <<"%">> -> PlainVerb(adverbs, "Reciprocal", e)
          [] verb = <<"#">> -> PlainVerb(adverbs, "Tally", e)
          [] verb = <<">", ".">> -> DualVerb(adverbs, "Ceiling", "LargerOf", e)
          [] verb = <<"+">> -> ReduceVerb(adverbs, "Plus", e)
          [] verb = <<"*">> -> ReduceVerb(adverbs, "Times", e)
          [] verb = <<"$">> -> PlainVerb(adverbs, "ShapeOf", e)
          [] OTHER -> Panic(UnsupportedMonadicVerb)

RECURSIVE StrReplace(_)
\* str.replace("''", "'"): the matches from the left, not overlapping
StrReplace(s) ==
    IF Len(s) = 0 THEN <<>>
    ELSE IF Len(s) >= 2 /\ s[1] = "'" /\ s[2] = "'"
    THEN <<"'">> \o StrReplace(SubSeq(s, 3, Len(s)))
    ELSE <<s[1]>> \o StrReplace(Tail(s))

\* CString::new(bytes): Err when a byte is 0
CString_new(bytes) ==
    IF \E k \in DOMAIN bytes : bytes[k] = NUL
    THEN [ok |-> FALSE, value |-> <<>>]
    ELSE [ok |-> TRUE, value |-> bytes]

\* an f64 of the J compiler: sign * mant / 10^scale, the sign kept at zero
\* too (0.0 and -0.0 differ in it), mant without trailing zeros past the point
Flt(sign, mant, scale) == [sign |-> sign, mant |-> mant, scale |-> scale]

RECURSIVE FltNormal(_, _)
FltNormal(mant, scale) ==
    IF mant = 0 THEN Flt(1, 0, 0)
    ELSE IF scale > 0 /\ mant % 10 = 0 THEN FltNormal(mant \div 10, scale - 1)
    ELSE Flt(1, mant, scale)

\* str::parse::<f64>() of digits "." digits
ParseDecimal(s) ==
    LET dots == {k \in DOMAIN s : s[k] = "."}
        dot == CHOOSE k \in dots : TRUE
        int == SubSeq(s, 1, dot - 1)
        frac == SubSeq(s, dot + 1, Len(s))
    IN  IF Cardinality(dots) # 1 THEN [ok |-> FALSE, value |-> Flt(1, 0, 0)]
        ELSE IF Len(int) + Len(frac) = 0 \/ ~AllDigits(int \o frac)
        THEN [ok |-> FALSE, value |-> Flt(1, 0, 0)]
        ELSE [ok |-> TRUE,
              value |-> FltNormal(DecimalValue(int \o frac), Len(frac))]

\* mutant: the minus sign of other languages taken for the negation mark
IntegerSign_minus(istr) ==
    IF istr[1] = "-" THEN [sign |-> 0 - 1, istr |-> Tail(istr)]
    ELSE [sign |-> 1, istr |-> istr]

\* match &istr[..1] { "_" => (-1, &istr[1..]), _ => (1, &istr[..]) }
IntegerSign(istr) ==
    IF istr[1] = "_" THEN [sign |-> 0 - 1, istr |-> Tail(istr)]
    ELSE [sign |-> 1, istr |-> istr]

\* mutant: the sign applied whatever the magnitude
ApplySign_always(flt, sign) == [flt EXCEPT !.sign = sign * flt.sign]

\* if flt != 0.0 { flt *= sign; }: the sign is not applied to a zero
ApplySign(flt, sign) ==
    IF flt.mant # 0 THEN [flt EXCEPT !.sign = sign * flt.sign] ELSE flt

\* mutant: a single term wrapped like any other number of terms
FlattenTerms_always_wrap(terms) == Terms(terms)

\* match terms.len() { 1 => terms.get(0).unwrap().clone(), _ => Terms(terms) }
FlattenTerms(terms) == IF Len(terms) = 1 THEN terms[1] ELSE Terms(terms)

RECURSIVE build_ast_from_expr(_), build_ast_from_term(_), build_terms(_)

\* pair.into_inner().map(build_ast_from_term).collect(): the terms built so
\* far, or the panic of the first term that panics
build_terms(pairs) ==
    IF Len(pairs) = 0 THEN Terms(<<>>)
    ELSE LET t == build_ast_from_term(Head(pairs))
             rest == build_terms(Tail(pairs))
         IN  IF IsPanic(t) THEN t
             ELSE IF IsPanic(rest) THEN rest
             ELSE Terms(<<t>> \o rest.terms)

build_ast_from_expr(pair) ==
    CASE pair.rule = "expr" ->
            IF Len(pair.inner) = 0 THEN Panic(UnwrapNone)
            ELSE build_ast_from_expr(pair.inner[1])
      [] pair.rule = "monadicExpr" ->
            IF Len(pair.inner) < 2 THEN Panic(UnwrapNone)
            ELSE LET e == build_ast_from_expr(pair.inner[2])
                 IN  IF IsPanic(e) THEN e
                     ELSE parse_monadic_action(pair.inner[1], e)
      [] pair.rule = "dyadicExpr" ->
            IF Len(pair.inner) < 3 THEN Panic(UnwrapNone)
            ELSE LET lhs == build_ast_from_expr(pair.inner[1])
                     rhs == build_ast_from_expr(pair.inner[3])
                 IN  IF IsPanic(lhs) THEN lhs
                     ELSE IF IsPanic(rhs) THEN rhs
                     ELSE parse_dyadic_action(pair.inner[2], lhs, rhs)
      [] pair.rule = "terms" ->
            LET terms == build_terms(pair.inner)
            IN  IF IsPanic(terms) THEN terms
                ELSE FlattenTerms(terms.terms)
      [] pair.rule = "assgmtExpr" ->
            IF Len(pair.inner) < 2 THEN Panic(UnwrapNone)
            ELSE LET e == build_ast_from_expr(pair.inner[2])
                 IN  IF IsPanic(e) THEN e
                     ELSE IsGlobal(pair.inner[1].str, e)
      [] pair.rule = "string" ->
            IF Len(pair.str) < 2 THEN Panic("byte index out of range")
            ELSE LET body == SubSeq(pair.str, 2, Len(pair.str) - 1)
                     c == CString_new(StrReplace(body))
                 IN  IF c.ok THEN Str(c.value)
                     ELSE Panic("called Result::unwrap() on an Err value")
      [] OTHER -> Panic("Unexpected expression")

build_ast_from_term(pair) ==
    CASE pair.rule = "integer" ->
            IF Len(pair.str) = 0 THEN Panic("byte index out of range")
            ELSE LET sign == IntegerSign(pair.str).sign
                     istr == IntegerSign(pair.str).istr
                 IN  IF ParseI32(istr).ok
                     THEN AstInteger(sign * ParseI32(istr).value)
                     ELSE Panic("called Result::unwrap() on an Err value")
      [] pair.rule = "decimal" ->
            IF Len(pair.str) = 0 THEN Panic("byte index out of range")
            ELSE LET neg == pair.str[1] = "_"
                     dstr == IF neg THEN Tail(pair.str) ELSE pair.str
                     flt == ParseDecimal(dstr)
                 IN  IF ~flt.ok
                     THEN Panic("called Result::unwrap() on an Err value")
                     ELSE DoublePrecisionFloat(
                              ApplySign(flt.value, IF neg THEN 0 - 1 ELSE 1))
      [] pair.rule = "expr" -> build_ast_from_expr(pair)
      [] pair.rule = "ident" -> Ident(pair.str)
      [] OTHER -> Panic("Unexpected term")

RECURSIVE parse_pairs_partial(_, _)
\* mutant: a statement that fails ends the loop and the nodes so far return
parse_pairs_partial(pairs, ast) ==
    IF Len(pairs) = 0 THEN [node |-> "Ok", ast |-> ast]
    ELSE IF Head(pairs).rule = "expr"
    THEN LET e == build_ast_from_expr(Head(pairs))
         IN  IF IsPanic(e) THEN [node |-> "Ok", ast |-> ast]
             ELSE parse_pairs_partial(Tail(pairs), Append(ast, AstPrint(e)))
    ELSE parse_pairs_partial(Tail(pairs), ast)

RECURSIVE parse_pairs(_, _)
\* the for loop of parse: one Print per expr pair, other pairs skipped
parse_pairs(pairs, ast) ==
    IF Len(pairs) = 0 THEN [node |-> "Ok", ast |-> ast]
    ELSE IF Head(pairs).rule = "expr"
    THEN LET e == build_ast_from_expr(Head(pairs))
         IN  IF IsPanic(e) THEN e
             ELSE parse_pairs(Tail(pairs), Append(ast, AstPrint(e)))
    ELSE parse_pairs(Tail(pairs), ast)

\* parse(source), for a source the recognizer accepts as the pairs given
parse(pairs) == parse_pairs(pairs, <<>>)

\* ---------------------------------------------- the recognised J programs
\* j.pest: the pairs of a program are its expr pairs and EOI;
\*   expr holds one of assgmtExpr, monadicExpr, dyadicExpr, string, terms;
\*   monadicExpr = action expr, dyadicExpr = (monadicExpr | terms) action expr,
\*   action = verb adverb*, assgmtExpr = ident expr,
\*   terms = (decimal | integer | ident | "(" expr ")")+,
\*   string = "'" ("''" | any character but "'")* "'"

JExpr(inner) == Pair("expr", <<>>, <<inner>>)

JTerms(terms) == Pair("terms", <<>>, terms)

VerbTexts ==
    {<<">", ":">>, <<"*", ":">>, <<"-">>, <<"%">>, <<"#">>, <<">", ".">>,
     <<"+">>, <<"*">>, <<"$">>, <<"<">>, <<"=">>, <<">">>, <<"^">>, <<"|">>,
     <<"&">>}

AdverbTexts == {<<"/">>, <<"~">>}

AdverbLists ==
    UNION {[1..n -> {Pair("adverb", a, <<>>) : a \in AdverbTexts}] :
              n \in 0..MaxAdverbs}

Actions ==
    {Pair("action", <<>>, <<Pair("verb", v, <<>>)>> \o advs) :
        v \in VerbTexts, advs \in AdverbLists}

\* the left operands of the verbs
LeftOperands ==
    {JTerms(<<Pair("integer", <<"7">>, <<>>)>>),
     JTerms(<<Pair("ident", <<"x">>, <<>>), Pair("integer", <<"_", "2">>, <<>>)>>),
     JTerms(<<JExpr(JTerms(<<Pair("integer", <<"7">>, <<>>)>>))>>)}

\* the right operands: the left ones, - 7, and < 7, which no monadic verb is
RightOperands ==
    {JExpr(t) : t \in LeftOperands}
    \cup {JExpr(Pair("monadicExpr", <<>>,
                     <<Pair("action", <<>>, <<Pair("verb", v, <<>>)>>),
                       JExpr(JTerms(<<Pair("integer", <<"7">>, <<>>)>>))>>)) :
              v \in {<<"-">>, <<"<">>}}

VerbExprs ==
    {JExpr(Pair("monadicExpr", <<>>, <<a, e>>)) :
        a \in Actions, e \in RightOperands}
    \cup {JExpr(Pair("dyadicExpr", <<>>, <<l, a, e>>)) :
        l \in LeftOperands, a \in Actions, e \in RightOperands}
    \cup {JExpr(Pair("assgmtExpr", <<>>, <<Pair("ident", <<"x">>, <<>>), e>>)) :
        e \in RightOperands}

LeafTerms == {Pair("integer", <<"1">>, <<>>), Pair("ident", <<"x">>, <<>>)}

RECURSIVE TermLists(_, _), TermsOf(_, _)
\* one term of n literals and identifiers in all, parentheses at most d deep
TermsOf(n, d) ==
    (IF n = 1 THEN LeafTerms ELSE {})
    \cup (IF d = 0 THEN {} ELSE {JExpr(JTerms(t)) : t \in TermLists(n, d - 1)})

\* the term lists of n literals and identifiers in all
TermLists(n, d) ==
    {<<t>> : t \in TermsOf(n, d)}
    \cup UNION {{<<t>> \o rest : t \in TermsOf(m, d), rest \in TermLists(n - m, d)} :
                   m \in 1..(n - 1)}

TermExprs ==
    {JExpr(JTerms(t)) : t \in UNION {TermLists(n, MaxDepth) : n \in 1..MaxTerms}}

StrUnits == {<<"'", "'">>, <<"a">>, <<"b">>, <<NUL>>}

RECURSIVE StrBodies(_)
\* the texts between the quotes, of n characters and doubled quotes
StrBodies(n) ==
    IF n = 0 THEN {<<>>}
    ELSE {u \o b : u \in StrUnits, b \in StrBodies(n - 1)}

StringExprs ==
    {JExpr(Pair("string", <<"'">> \o b \o <<"'">>, <<>>)) :
        b \in UNION {StrBodies(n) : n \in 0..MaxStrUnits}}

RECURSIVE DigitRun(_)
\* ASCII_DIGIT*: how many digits the text starts with
DigitRun(s) ==
    IF Len(s) > 0 /\ IsDigit(Head(s)) THEN 1 + DigitRun(Tail(s)) ELSE 0

\* term = _{ decimal | integer | ... } at the start of the text, with
\* decimal = @{ "_"? ~ ASCII_DIGIT+ ~ "." ~ ASCII_DIGIT* } and
\* integer = @{ "_"? ~ ASCII_DIGIT+ }: the rule that matches and the length
\* it consumes, length 0 when neither matches
NumTermAt(s) ==
    LET u == IF Len(s) > 0 /\ s[1] = "_" THEN 1 ELSE 0
        rest == SubSeq(s, u + 1, Len(s))
        n == DigitRun(rest)
        after == SubSeq(rest, n + 1, Len(rest))
    IN  IF n = 0 THEN [rule |-> "none", len |-> 0]
        ELSE IF Len(after) > 0 /\ after[1] = "."
        THEN [rule |-> "decimal", len |-> u + n + 1 + DigitRun(Tail(after))]
        ELSE [rule |-> "integer", len |-> u + n]

RECURSIVE LexTerms(_)
\* terms = { term+ } over a text of numeric literals, no blank needed between
\* two terms: the term pairs, ok only when the whole text is consumed
LexTerms(s) ==
    LET t == NumTermAt(s)
        rest == LexTerms(SubSeq(s, t.len + 1, Len(s)))
    IN  IF Len(s) = 0 THEN [ok |-> TRUE, pairs |-> <<>>]
        ELSE IF t.len = 0 THEN [ok |-> FALSE, pairs |-> <<>>]
        ELSE [ok |-> rest.ok,
              pairs |-> <<Pair(t.rule, SubSeq(s, 1, t.len), <<>>)>>
                        \o rest.pairs]

\* the characters the numeric sources are written with
NumChars == {"_", ".", "0", "5"}

\* every text of at most MaxNumLen of those characters
NumTexts == UNION {[1..k -> NumChars] : k \in 1..MaxNumLen}

\* longer sources: a million with its digits grouped, and the ends of i32
LongNumTexts ==
    {<<"1", "_", "0", "0", "0", "_", "0", "0", "0">>,
     <<"2", "1", "4", "7", "4", "8", "3", "6", "4", "7">>,
     <<"2", "1", "4", "7", "4", "8", "3", "6", "4", "8">>,
     <<"_", "2", "1", "4", "7", "4", "8", "3", "6", "4", "8">>}

\* the expr pair of a source line of numeric literals, its text kept
NumExpr(text) ==
    Pair("expr", text, <<Pair("terms", text, LexTerms(text).pairs)>>)

\* the numeric sources the recognizer accepts
NumExprs ==
    {NumExpr(text) : text \in {t \in NumTexts \cup LongNumTexts : LexTerms(t).ok}}

\* the pairs of the one-statement programs
Programs ==
    {<<e, Tok("EOI")>> :
        e \in VerbExprs \cup TermExprs \cup StringExprs \cup NumExprs}

InitJ ==
    /\ prog = "jlang-parser"
    /\ input \in Programs
    /\ output = Pending
    /\ pc = "ready"

\* jlang-parser main: parse(&unparsed_file)
JlangParse ==
    /\ prog = "jlang-parser"
    /\ pc = "ready"
    /\ output' = parse(input)
    /\ pc' = "done"
    /\ UNCHANGED <<prog, input>>

NextJ == JlangParse

SpecJ == InitJ /\ [][NextJ]_vars

\* the statements the programs of several statements are made of: 7, x _2,
\* (7), - 7, and < 7 whose compilation fails
StmtPool == RightOperands

\* program = _{ SOI ~ "\n"* ~ (stmt ~ "\n"+)* ~ stmt? ~ EOI }: the pairs of
\* the programs of at most MaxStmts statements, the empty program included
StmtPrograms ==
    {stmts \o <<Tok("EOI")>> :
        stmts \in UNION {[1..n -> StmtPool] : n \in 0..MaxStmts}}

InitJStmts ==
    /\ prog = "jlang-parser"
    /\ input \in StmtPrograms
    /\ output = Pending
    /\ pc = "ready"

SpecJStmts == InitJStmts /\ [][NextJ]_vars

\* ------------------------------------------ properties of the J compiler

\* the statement of the program: the pair inside its expr pair
Stmt == input[1].inner[1]

\* parse returned the one node n, wrapped in Print
Returned(n) == output = [node |-> "Ok", ast |-> <<AstPrint(n)>>]

\* parse did not return: the panic with message msg
Fatal(msg) == output = Panic(msg)

\* the error kinds of the specification, as the panics of the code
UnsupportedAdverb ==
    {AssertNoAdverbs, AssertOneAdverb, AssertReduceAdverb,
     UnsupportedNumberOfAdverbs}

UnknownVerb == {UnexpectedDyadicVerb, UnsupportedMonadicVerb}

\* a monadic statement whose operand is built: its verb, adverbs and operand
MonadicDone ==
    /\ pc = "done"
    /\ Stmt.rule = "monadicExpr"
    /\ ~IsPanic(build_ast_from_expr(Stmt.inner[2]))

MVerb == ActionVerb(Stmt.inner[1]).str

MAdverbs == ActionAdverbs(Stmt.inner[1])

MOperand == build_ast_from_expr(Stmt.inner[2])

\* C4: - and >. are Negate and Ceiling with no adverb, Reduce(Minus) and
\* Reduce(LargerOf) with exactly one adverb, whatever it is, and fatal
\* (unsupported adverbs, no node) with two or more.
C4_DualVerbsByAdverbCount ==
    (MonadicDone /\ MVerb \in {<<"-">>, <<">", ".">>}) =>
        LET m == IF MVerb = <<"-">> THEN "Negate" ELSE "Ceiling"
            d == IF MVerb = <<"-">> THEN "Minus" ELSE "LargerOf"
        IN  /\ Len(MAdverbs) = 0 => Returned(MonadicOp(m, MOperand))
            /\ Len(MAdverbs) = 1 => Returned(Reduce(d, MOperand))
            /\ Len(MAdverbs) >= 2 =>
                   IsPanic(output) /\ output.msg \in UnsupportedAdverb

C4_Witness ==
    /\ MonadicDone
    /\ MVerb = <<"-">>
    /\ Len(MAdverbs) = 1
    /\ MAdverbs[1].str = <<"~">>
    /\ Returned(Reduce("Minus", AstInteger(7)))

\* C5: + and * are Reduce(Plus) and Reduce(Times) exactly when the adverbs
\* are the one adverb /; with any other adverb list the call is fatal.
C5_ReduceVerbsNeedTheSlash ==
    (MonadicDone /\ MVerb \in {<<"+">>, <<"*">>}) =>
        LET d == IF MVerb = <<"+">> THEN "Plus" ELSE "Times"
            slash == Len(MAdverbs) = 1 /\ MAdverbs[1].str = <<"/">>
        IN  /\ slash => Returned(Reduce(d, MOperand))
            /\ ~slash => IsPanic(output) /\ output.msg \in UnsupportedAdverb

C5_Witness ==
    /\ MonadicDone
    /\ MVerb = <<"+">>
    /\ MAdverbs = <<Pair("adverb", <<"/">>, <<>>)>>
    /\ Returned(Reduce("Plus", AstInteger(7)))

\* the monadic verbs without adverbs, as the claim lists them
ClaimPlainVerbs ==
    {<< <<">", ":">>, "Increment" >>, << <<"*", ":">>, "Square" >>,
     << <<"%">>, "Reciprocal" >>, << <<"#">>, "Tally" >>,
     << <<"$">>, "ShapeOf" >>}

ClaimMonadicSymbols ==
    {<<">", ":">>, <<"*", ":">>, <<"-">>, <<"%">>, <<"#">>, <<">", ".">>,
     <<"+">>, <<"*">>, <<"$">>}

\* C6: >:, *:, %, #, $ without adverbs are Increment, Square, Reciprocal,
\* Tally, ShapeOf, and fatal with any adverb; a verb outside the nine monadic
\* symbols is fatal (unknown verb) whatever the adverbs.
C6_PlainVerbsAndUnknownVerbs ==
    MonadicDone =>
        /\ \A c \in ClaimPlainVerbs :
               MVerb = c[1] =>
                   IF Len(MAdverbs) = 0 THEN Returned(MonadicOp(c[2], MOperand))
                   ELSE IsPanic(output) /\ output.msg \in UnsupportedAdverb
        /\ MVerb \notin ClaimMonadicSymbols =>
               IsPanic(output) /\ output.msg \in UnknownVerb

C6_Witness ==
    /\ MonadicDone
    /\ MVerb = <<"&">>
    /\ Len(MAdverbs) = 1
    /\ Fatal(UnsupportedMonadicVerb)

\* a dyadic statement whose operands are built
DyadicDone ==
    /\ pc = "done"
    /\ Stmt.rule = "dyadicExpr"
    /\ ~IsPanic(build_ast_from_expr(Stmt.inner[1]))
    /\ ~IsPanic(build_ast_from_expr(Stmt.inner[3]))

DVerb == ActionVerb(Stmt.inner[2]).str

DAdverbs == ActionAdverbs(Stmt.inner[2])

\* C7: a dyadic action with adverbs is fatal as unsupported adverbs, for a
\* verb of the table as for any other: the adverbs are checked before the
\* verb, and no DyadicOp is built.
C7_DyadicAdverbsRejected ==
    (pc = "done" /\ Stmt.rule = "dyadicExpr" /\ Len(DAdverbs) > 0) =>
        /\ IsPanic(output)
        /\ DyadicDone => Fatal(AssertNoAdverbs)

C7_Witness ==
    /\ DyadicDone
    /\ DVerb = <<"&">>
    /\ Len(DAdverbs) = 1
    /\ Fatal(AssertNoAdverbs)

\* the dyadic verbs, as the claim lists them
ClaimDyadicVerbs ==
    {<< <<"+">>, "Plus" >>, << <<"*">>, "Times" >>, << <<"-">>, "Minus" >>,
     << <<"<">>, "LessThan" >>, << <<"=">>, "Equal" >>,
     << <<">">>, "LargerThan" >>, << <<"%">>, "Divide" >>,
     << <<"^">>, "Power" >>, << <<"|">>, "Residue" >>, << <<"#">>, "Copy" >>,
     << <<">", ".">>, "LargerOf" >>, << <<">", ":">>, "LargerOrEqual" >>,
     << <<"$">>, "Shape" >>}

\* C8: without adverbs the thirteen dyadic symbols build DyadicOp with
\* thirteen different verbs, the left operand as lhs and the right one as
\* rhs; any other symbol is fatal (unknown verb).
C8_DyadicTable ==
    (DyadicDone /\ Len(DAdverbs) = 0) =>
        /\ Cardinality({c[1] : c \in ClaimDyadicVerbs}) = 13
        /\ Cardinality({c[2] : c \in ClaimDyadicVerbs}) = 13
        /\ \A c \in ClaimDyadicVerbs :
               DVerb = c[1] =>
                   Returned([node |-> "DyadicOp", verb |-> c[2],
                             lhs |-> build_ast_from_expr(Stmt.inner[1]),
                             rhs |-> build_ast_from_expr(Stmt.inner[3])])
        /\ DVerb \notin {c[1] : c \in ClaimDyadicVerbs} =>
               Fatal(UnexpectedDyadicVerb)

C8_Witness ==
    /\ DyadicDone
    /\ DVerb = <<">", ".">>
    /\ Len(DAdverbs) = 0
    /\ Stmt.inner[1] = JTerms(<<Pair("ident", <<"x">>, <<>>),
                               Pair("integer", <<"_", "2">>, <<>>)>>)
    /\ Returned([node |-> "DyadicOp", verb |-> "LargerOf",
                 lhs |-> Terms(<<Ident(<<"x">>), AstInteger(0 - 2)>>),
                 rhs |-> AstInteger(7)])

RECURSIVE NoSingletonTerms(_)
\* no Terms node of length 1 in the tree
NoSingletonTerms(n) ==
    CASE n.node = "Terms" ->
            Len(n.terms) # 1 /\ \A k \in DOMAIN n.terms : NoSingletonTerms(n.terms[k])
      [] n.node = "DyadicOp" -> NoSingletonTerms(n.lhs) /\ NoSingletonTerms(n.rhs)
      [] n.node \in {"Print", "MonadicOp", "Reduce", "IsGlobal"} ->
            NoSingletonTerms(n.expr)
      [] OTHER -> TRUE

\* C9: a terms node of one term is that term's node, of any other number of
\* terms the Terms of the terms' nodes in order; no Terms of length 1 is
\* anywhere in what parse returns.
C9_SingletonTermsFlattened ==
    pc = "done" =>
        /\ output.node = "Ok" =>
               \A k \in DOMAIN output.ast : NoSingletonTerms(output.ast[k])
        /\ Stmt.rule = "terms" =>
               LET built == [k \in DOMAIN Stmt.inner |->
                                build_ast_from_term(Stmt.inner[k])]
               IN  (\A k \in DOMAIN built : ~IsPanic(built[k])) =>
                       IF Len(built) = 1 THEN Returned(built[1])
                       ELSE Returned([node |-> "Terms", terms |-> built])

C9_Witness ==
    /\ pc = "done"
    /\ Stmt = JTerms(<<JExpr(JTerms(<<Pair("integer", <<"1">>, <<>>)>>))>>)
    /\ Returned(AstInteger(1))

RECURSIVE ClaimCollapse(_)
\* the body with its doubled quotes, taken from the left, made single
ClaimCollapse(body) ==
    IF Len(body) >= 2 /\ body[1] = "'" /\ body[2] = "'"
    THEN <<"'">> \o ClaimCollapse(SubSeq(body, 3, Len(body)))
    ELSE IF Len(body) = 0 THEN <<>>
    ELSE <<Head(body)>> \o ClaimCollapse(Tail(body))

StringBody == SubSeq(Stmt.str, 2, Len(Stmt.str) - 1)

\* C10: the Str stored for a string token is its text without the first and
\* the last quote, every doubled quote of it made a single one.
C10_StringNormalized ==
    (pc = "done" /\ Stmt.rule = "string") =>
        Returned(Str(ClaimCollapse(StringBody)))

\* C10, the tokens without a byte 0: as C10 states; with one, parse panics
C10_StringNormalizedUnlessNul ==
    (pc = "done" /\ Stmt.rule = "string") =>
        IF \E k \in DOMAIN StringBody : StringBody[k] = NUL
        THEN Fatal("called Result::unwrap() on an Err value")
        ELSE Returned(Str(ClaimCollapse(StringBody)))

\* the source text of a program of one line of numeric literals (the other
\* programs carry no text on their expr pair)
Source == input[1].str

\* one line of numeric literals has been compiled
NumDone == pc = "done" /\ Len(input) = 2 /\ Len(Source) > 0

\* the shape the claim gives an integer literal: digits and underscores
ClaimIntegerText(t) == \A k \in DOMAIN t : IsDigit(t[k]) \/ t[k] = "_"

\* the digits that remain after the underscores are filtered out
Filtered(t) == SelectSeq(t, IsDigit)

RECURSIVE Pieces(_)
\* an integer text cut before every underscore that is not its first character
Pieces(t) ==
    LET us == {k \in 2..Len(t) : t[k] = "_"}
        p == CHOOSE k \in us : \A j \in us : j <= k
    IN  IF us = {} THEN <<t>>
        ELSE Append(Pieces(SubSeq(t, 1, p - 1)), SubSeq(t, p, Len(t)))

PieceDigits(p) == IF p[1] = "_" THEN Tail(p) ELSE p

PieceValue(p) ==
    IF p[1] = "_" THEN 0 - DecimalValue(Tail(p)) ELSE DecimalValue(p)

ClaimDecimalText(t) ==
    LET body == IF t[1] = "_" THEN Tail(t) ELSE t
        dots == {k \in DOMAIN body : body[k] = "."}
    IN  /\ Cardinality(dots) = 1
        /\ \A k \in dots : k > 1
        /\ \A k \in DOMAIN body : IsDigit(body[k]) \/ body[k] = "."

\* the magnitude parsed from a decimal token, its sign mark set aside
Magnitude(t) == ParseDecimal(IF t[1] = "_" THEN Tail(t) ELSE t).value

\* the floats among the nodes compiled from a line of numeric literals
FloatsOf(ast) ==
    IF ast.node = "DoublePrecisionFloat" THEN {ast.value}
    ELSE IF ast.node = "Terms"
    THEN {ast.terms[k].value :
             k \in {j \in DOMAIN ast.terms :
                       ast.terms[j].node = "DoublePrecisionFloat"}}
    ELSE {}

\* C12: no float literal is compiled to negative zero: a decimal token
\* yields its magnitude m when it has no leading _, -m when it has one and m
\* is not zero, and +0.0 when it has one and m is zero.
C12_NoNegativeZero ==
    /\ (NumDone /\ ClaimDecimalText(Source)) =>
          LET m == Magnitude(Source)
          IN  Returned(DoublePrecisionFloat(
                  IF m.mant = 0 THEN Flt(1, 0, 0)
                  ELSE IF Source[1] = "_" THEN Flt(0 - 1, m.mant, m.scale)
                  ELSE Flt(1, m.mant, m.scale)))
    /\ (NumDone /\ output.node = "Ok") =>
          \A f \in FloatsOf(output.ast[1].expr) : f.mant = 0 => f.sign = 1

\* _0.0 has been compiled to +0.0
C12_Witness ==
    /\ NumDone
    /\ Source = <<"_", "0", ".", "0">>
    /\ Returned(DoublePrecisionFloat(Flt(1, 0, 0)))

IsStatement(pair) == pair.rule = "expr"

\* the top-level statements of the program, in source order
Statements == SelectSeq(input, IsStatement)

\* the statements whose compilation fails
FailingStatements ==
    {k \in DOMAIN Statements : IsPanic(build_ast_from_expr(Statements[k]))}

\* C13: parse returns one node per top-level statement, each wrapped in
\* Print, in source order, the other pairs (end of input) giving no node;
\* when the compilation of a statement fails parse ends in that one failure
\* and returns no node at all.
C13_OnePrintPerStatement ==
    pc = "done" =>
        IF FailingStatements = {}
        THEN /\ output.node = "Ok"
             /\ Len(output.ast) = Len(Statements)
             /\ \A k \in DOMAIN Statements :
                    output.ast[k] = AstPrint(build_ast_from_expr(Statements[k]))
        ELSE LET first == CHOOSE k \in FailingStatements :
                              \A j \in FailingStatements : k <= j
             IN  output = build_ast_from_expr(Statements[first])

\* a program of MaxStmts statements has been compiled to as many Prints
C13_Witness ==
    /\ pc = "done"
    /\ Len(Statements) = MaxStmts
    /\ Len(input) = MaxStmts + 1
    /\ output.node = "Ok"
    /\ Len(output.ast) = MaxStmts

\* ------------------------------------ properties of the line loops

\* the one output the claim gives a line that was read: the result when the
\* line is recognised, the diagnostic when it is not
ClaimOutput(p, line) ==
    IF line.node = "Err"
    THEN IF p = "calculator" THEN Stdout(" Syntax error", None)
         ELSE Stderr("Parse failed: ", None)
    ELSE IF p = "calculator" THEN Stdout(" = ", eval(line.pairs))
    ELSE Stdout("Parsed: ", parse_expr(line.pairs))

\* a line is there and has been read
LineRead == pc = "reading" /\ input # <<>> /\ Head(input).node # "IoErr"

\* one turn of the loop as the claim has it: the first line left is taken,
\* its one output is appended, and the loop goes on
ClaimedTurn ==
    /\ input' = Tail(input)
    /\ output' = Append(output, ClaimOutput(prog, Head(input)))
    /\ pc' = "reading"

\* the loop ends only on an input that is exhausted (or cannot be read)
ClaimedEnd ==
    (pc = "reading" /\ pc' # "reading") =>
        input = <<>> \/ Head(input).node = "IoErr"

\* C14 as stated: the loops take the lines one at a time in input order and
\* emit exactly one output per line, the result for a recognised line and
\* the diagnostic for another, none depending on earlier lines; no line
\* stops the loop, which ends only when the input is exhausted.
C14_OneOutputPerLine ==
    [][(LineRead => ClaimedTurn) /\ ClaimedEnd]_vars

\* the recognised line whose result cannot be built: parse_expr or eval panics
PanickingLine ==
    /\ Head(input).node = "Ok"
    /\ IsPanic(IF prog = "calculator" THEN eval(Head(input).pairs)
               ELSE parse_expr(Head(input).pairs))

\* C14 without the lines that panic: every other line that is read gets its
\* one output and the loop goes on, whatever the lines before it were
C14_OneOutputPerLineUnlessPanic ==
    [][/\ (LineRead /\ ~PanickingLine) => ClaimedTurn
       /\ (pc = "reading" /\ pc' # "reading") =>
              \/ input = <<>>
              \/ Head(input).node = "IoErr"
              \/ PanickingLine]_vars

\* C14, the loop never hangs: every run of the loop ends
C14_LoopEnds == <>(pc # "reading")

\* pest-calculator has panicked on a recognised line with lines left unread
C14_PanickedWithLinesLeft ==
    /\ prog = "pest-calculator"
    /\ pc = "panicked"
    /\ input # <<>>
    /\ output[Len(output)].value.node = "panic"

\* ------------------------------------------------- the three programs

Init == InitPratt \/ InitLoop \/ InitJ \/ InitJStmts

Next == NextPratt \/ NextLoop \/ NextJ

Spec == Init /\ [][Next]_vars

====
